---- MODULE Spec2Model ----
(***************************************************************************)
(* Model of the seeding pipeline of "Seed Script/seed_openai.py": a run    *)
(* validates its arguments, opens the catalog and chunks tables of a       *)
(* LanceDB database, optionally drops them, loads the PDF page units of a  *)
(* directory, stages one catalog record per source that is not yet in the  *)
(* catalog, writes the staged records, and writes the chunks of every      *)
(* source that was not skipped in sub-batches.                             *)
(*                                                                         *)
(* The database and the directory persist from one run to the next.        *)
(* Every call to a provider or to the store may raise, and the directory   *)
(* may change; the number of runs plus the number of such events in a      *)
(* behaviour is bounded by MaxEvents.  A run that exits in validate_args   *)
(* changes nothing, so the runs after it are the runs after the state it   *)
(* started in: the model does not follow them.                             *)
(*                                                                         *)
(* Spec is the pipeline; LiveSpec adds the fairness of a run's steps;      *)
(* OverviewSpec and GroupSpec apply generate_content_overview and the      *)
(* grouping step of process_documents to inputs of their own.              *)
(***************************************************************************)
EXTENDS Integers, Sequences, FiniteSets, TLC

(***************************************************************************)
(* Bounds of the model.                                                    *)
(***************************************************************************)
\* Runs started plus events (errors raised, changes of the directory) in a behaviour.
MaxEvents == 3

(***************************************************************************)
(* Program constants.                                                      *)
(***************************************************************************)
batch_size == 100
chunk_size == 400
chunk_overlap == 50
MAX_PAGES_FOR_SUMMARY == 10
MAX_CHARS_FOR_SUMMARY == 4000

CATALOG_TABLE_NAME == "catalog"
CHUNKS_TABLE_NAME == "chunks"

(***************************************************************************)
(* The directory: the PDF files, in the order the loader visits them, and  *)
(* the byte contents a file can have (0: no such file).  A content is a    *)
(* list of pages, each with the length of its text.                        *)
(***************************************************************************)
SourceOrder == <<"a.pdf", "b.pdf">>
Sources == {SourceOrder[k] : k \in 1..Len(SourceOrder)}
Contents == {1, 2, 3}
Absent == 0

\* Content 1 is a one-page leaflet; content 2 is a long report whose two
\* pages split into exactly batch_size fragments (batch_size - 1 and 1), so
\* that a run writes one sub-batch, one full sub-batch, a full one and a
\* short one, or two full ones; content 3 is a scanned page, from which the
\* loader extracts no text.
PagesOf(c) ==
    IF c = 1
    THEN << [page |-> 0, len |-> 120] >>
    ELSE IF c = 3
    THEN << [page |-> 0, len |-> 0] >>
    ELSE << [page |-> 0, len |-> chunk_size + (batch_size - 2) * (chunk_size - chunk_overlap)],
            [page |-> 1, len |-> chunk_size] >>

None == "None"
Handle == "Table"

NoTable == [exists |-> FALSE, rows |-> <<>>]

VARIABLES
    disk,                   \* source path -> content of the file (Absent: no file)
    catalog,                \* the catalog table of the database
    chunks,                 \* the chunks table of the database
    runs,                   \* number of runs started
    faults,                 \* number of events so far: errors raised, changes of the directory
    pc,                     \* position of the current run in main()
    args,                   \* parsed command line of the current run
    catalog_table,          \* main(): handle of the catalog table, or None
    chunks_table,           \* main(): handle of the chunks table, or None
    catalog_table_exists,   \* main()
    should_recreate_tables, \* main()
    raw_docs,               \* main(): the loaded page units
    docs_by_source,         \* process_documents(): the page units of each source
    pending,                \* process_documents(): sources still to process
    skip_sources,           \* process_documents(): sources found in the catalog
    catalog_records,        \* process_documents(): staged catalog records
    docs,                   \* main(): the chunks to write
    i,                      \* main(): start index of the current sub-batch
    h,                      \* history of the current run (what it did)
    catalog0,               \* history: the catalog table when the run started
    chunks0,                \* history: the chunks table when the run started
    prev,                   \* history: how the previous run ended, whether it retried its catalog write
    overwritten,            \* history: a run so far was started with --overwrite
    unchangedSince,         \* history: first run since whose start the directory is unchanged
    units,                  \* generate_content_overview(): its argument docs, the page units of a source
    max_pages,              \* generate_content_overview(): its argument max_pages
    first_10_pages,         \* generate_content_overview(): the units selected for the summary
    combined_text,          \* generate_content_overview(): the text built from the selected units
    submitted               \* generate_content_overview(): combined_text[:max_chars], the text in the prompt

vars == << disk, catalog, chunks, runs, faults, pc, args, catalog_table,
           chunks_table, catalog_table_exists, should_recreate_tables, raw_docs,
           docs_by_source, pending, skip_sources, catalog_records, docs, i, h, catalog0, chunks0,
           prev, overwritten, unchangedSince, units, max_pages, first_10_pages, combined_text,
           submitted >>

dbVars == << catalog, chunks >>
envVars == << disk, unchangedSince >>
startVars == << runs, args, catalog0, chunks0, prev, overwritten >>
handleVars == << catalog_table, chunks_table, catalog_table_exists, should_recreate_tables >>
procVars == << raw_docs, docs_by_source, pending, skip_sources, catalog_records >>
chunkVars == << docs, i >>
overviewVars == << units, max_pages, first_10_pages, combined_text, submitted >>

(***************************************************************************)
(* Helpers on sequences.                                                   *)
(***************************************************************************)
Min(a, b) == IF a < b THEN a ELSE b

Range(s) == {s[k] : k \in 1..Len(s)}

RECURSIVE Flatten(_)
Flatten(ss) == IF ss = <<>> THEN <<>> ELSE Head(ss) \o Flatten(Tail(ss))

Count(s, x) == Cardinality({k \in 1..Len(s) : s[k] = x})

\* Number of errors a step raises, for the budget of events.
B2N(b) == IF b THEN 1 ELSE 0
MayFail(n) == runs + faults + n <= MaxEvents

EmptyHistory ==
    [ io |-> {},            \* kinds of I/O and provider calls made by the run
      lookupFailed |-> FALSE, \* open_table or the schema read of the catalog raised
      processed |-> {},     \* sources that were hashed and not found in the catalog
      queried |-> {},       \* sources for which the membership query was issued
      qfailed |-> {},       \* sources whose membership query raised
      llmCalls |-> 0,       \* calls to the summarization provider
      llmFails |-> 0,       \* ... that raised
      catAttempts |-> 0,    \* write attempts on the catalog table
      catCause |-> "none",  \* what made the first catalog attempt fail
      catMode |-> "none",   \* how the first catalog attempt wrote
      catDropped |-> FALSE, \* the recovery path dropped the catalog table
      chkAttempts |-> 0,    \* write attempts (whole sequences) on the chunks table
      chkCause |-> "none",  \* what made the first chunks attempt fail
      chkFailedAt |-> -1,   \* start index of the sub-batch that failed
      chkDropped |-> FALSE, \* the recovery path dropped the chunks table
      dropFailed |-> FALSE, \* the overwrite step's drop raised
      abortCause |-> "none",
      missing |-> {},       \* sources whose file was not on disk when their group was processed
      hashed |-> {},        \* sources on which calculate_file_hash was called
      hfailed |-> {},       \* sources on which calculate_file_hash raised
      faults0 |-> 0,        \* events before the run started
      log |-> <<>> ]        \* the calls made by the run, in the order the code makes them

ArgChoices ==
    { [dbpath |-> TRUE, filesdir |-> TRUE, api_key |-> TRUE, overwrite |-> ow] : ow \in BOOLEAN }
    \cup { [dbpath |-> FALSE, filesdir |-> TRUE, api_key |-> TRUE, overwrite |-> FALSE],
           [dbpath |-> TRUE, filesdir |-> FALSE, api_key |-> TRUE, overwrite |-> FALSE],
           [dbpath |-> TRUE, filesdir |-> TRUE, api_key |-> FALSE, overwrite |-> TRUE] }

Init ==
    /\ disk \in [Sources -> Contents \cup {Absent}]
    /\ catalog = NoTable
    /\ chunks = NoTable
    /\ runs = 0
    /\ faults = 0
    /\ pc = "idle"
    /\ args = [dbpath |-> TRUE, filesdir |-> TRUE, api_key |-> TRUE, overwrite |-> FALSE]
    /\ catalog_table = None
    /\ chunks_table = None
    /\ catalog_table_exists = TRUE
    /\ should_recreate_tables = FALSE
    /\ raw_docs = <<>>
    /\ docs_by_source = <<>>
    /\ pending = <<>>
    /\ skip_sources = <<>>
    /\ catalog_records = <<>>
    /\ docs = <<>>
    /\ i = 0
    /\ h = EmptyHistory
    /\ catalog0 = NoTable
    /\ chunks0 = NoTable
    /\ prev = [outcome |-> "none", catRetried |-> FALSE]
    /\ overwritten = FALSE
    /\ unchangedSince = 1
    /\ units = <<>>
    /\ max_pages = MAX_PAGES_FOR_SUMMARY
    /\ first_10_pages = <<>>
    /\ combined_text = <<>>
    /\ submitted = <<>>

(***************************************************************************)
(* The environment: between two runs a file is added, removed or           *)
(* rewritten; while a run processes its sources a loaded file vanishes.    *)
(***************************************************************************)
\* A change is followed by a run, so it is made while a run can still start.
ChangeDir ==
    /\ pc \in {"done", "aborted"}
    /\ MayFail(2)
    /\ \E s \in Sources, c \in Contents \cup {Absent} :
          /\ c # disk[s]
          /\ disk' = [disk EXCEPT ![s] = c]
    /\ faults' = faults + 1
    /\ unchangedSince' = runs + 1
    /\ UNCHANGED << overviewVars, dbVars, pc, startVars, handleVars, procVars, chunkVars, h >>

Vanish ==
    /\ pc = "process"
    /\ MayFail(1)
    /\ \E s \in Range(pending) :
          /\ disk[s] # Absent
          /\ disk' = [disk EXCEPT ![s] = Absent]
    /\ faults' = faults + 1
    /\ unchangedSince' = runs + 1
    /\ UNCHANGED << overviewVars, dbVars, pc, startVars, handleVars, procVars, chunkVars, h >>

(***************************************************************************)
(* parse_arguments and the start of main().                                *)
(***************************************************************************)
StartRun ==
    /\ pc \in {"idle", "done", "aborted"}
    /\ MayFail(1)
    /\ \E a \in ArgChoices : args' = a
    /\ overwritten' = (overwritten \/ args'.overwrite)
    /\ runs' = runs + 1
    /\ prev' = [outcome |-> IF pc = "idle" THEN "none" ELSE pc,
                 catRetried |-> h.catAttempts = 2]
    /\ catalog0' = catalog
    /\ chunks0' = chunks
    /\ pc' = "validate"
    /\ catalog_table' = None
    /\ chunks_table' = None
    /\ catalog_table_exists' = TRUE
    /\ should_recreate_tables' = FALSE
    /\ raw_docs' = <<>>
    /\ docs_by_source' = <<>>
    /\ pending' = <<>>
    /\ skip_sources' = <<>>
    /\ catalog_records' = <<>>
    /\ docs' = <<>>
    /\ i' = 0
    /\ h' = [EmptyHistory EXCEPT !.faults0 = faults]
    /\ UNCHANGED << overviewVars, dbVars, envVars, faults >>

(***************************************************************************)
(* validate_args: "exit" stands for sys.exit(1).                           *)
(***************************************************************************)
\* Mutant: the check of the credentials is left out.
validate_args_no_key(a) ==
    IF ~a.dbpath \/ ~a.filesdir THEN "exit" ELSE "ok"

validate_args(a) ==
    IF ~a.dbpath \/ ~a.filesdir
    THEN "exit"
    ELSE IF ~a.api_key THEN "exit" ELSE "ok"

Did(hist, ops) == [hist EXCEPT !.io = @ \cup ops]

\* One call of the run: the operation, what it is made on (a source path or
\* a table name), the start index of the sub-batch it writes, and whether it
\* returned (TRUE) or raised (FALSE).  The code makes its calls one after
\* another (every await is awaited before the next statement, no task is
\* spawned), so the calls of a run form a sequence.
Call(op, on, at, ok) == [op |-> op, on |-> on, at |-> at, ok |-> ok]

Logged(hist, calls) == [hist EXCEPT !.log = @ \o calls]

ValidateArgs ==
    /\ pc = "validate"
    /\ pc' = IF validate_args(args) = "exit" THEN "exit1" ELSE "init"
    /\ UNCHANGED << overviewVars, dbVars, envVars, faults, startVars, handleVars, procVars, chunkVars, h >>

(***************************************************************************)
(* main(): the models are built, the embedding provider is called once on  *)
(* a test string, and the database is connected.                           *)
(***************************************************************************)
InitModels ==
    /\ pc = "init"
    /\ \E fail \in BOOLEAN :
          /\ MayFail(B2N(fail))
          /\ faults' = faults + B2N(fail)
          /\ IF fail
             THEN /\ pc' = "aborted"
                  /\ h' = [Logged(Did(h, {"embed"}), <<Call("embed_query", "", 0, FALSE)>>)
                           EXCEPT !.abortCause = "embed_test"]
             ELSE /\ pc' = "open"
                  /\ h' = Logged(Did(h, {"embed", "connect"}),
                                 <<Call("embed_query", "", 0, TRUE), Call("connect", "", 0, TRUE)>>)
    /\ UNCHANGED << overviewVars, dbVars, envVars, startVars, handleVars, procVars, chunkVars >>

(***************************************************************************)
(* main(): open_table on both tables; any error means "does not exist".    *)
(***************************************************************************)
OpenTables ==
    /\ pc = "open"
    /\ \E fc \in {f \in BOOLEAN : f => catalog.exists},
          fk \in {f \in BOOLEAN : f => chunks.exists} :
          /\ MayFail(B2N(fc) + B2N(fk))
          /\ faults' = faults + B2N(fc) + B2N(fk)
          /\ catalog_table' = IF catalog.exists /\ ~fc THEN Handle ELSE None
          /\ catalog_table_exists' = (catalog.exists /\ ~fc)
          /\ chunks_table' = IF chunks.exists /\ ~fk THEN Handle ELSE None
          /\ h' = [Logged(Did(h, {"open"}),
                          <<Call("open_table", CATALOG_TABLE_NAME, 0, catalog.exists /\ ~fc),
                            Call("open_table", CHUNKS_TABLE_NAME, 0, chunks.exists /\ ~fk)>>)
                   EXCEPT !.lookupFailed = fc]
    /\ pc' = "schema"
    /\ UNCHANGED << overviewVars, dbVars, envVars, startVars, should_recreate_tables, procVars, chunkVars >>

(***************************************************************************)
(* main(): should_recreate_tables is the overwrite flag, or true when the  *)
(* schema of an existing catalog table cannot be read.                     *)
(***************************************************************************)
CheckSchema ==
    /\ pc = "schema"
    /\ IF catalog_table_exists /\ ~args.overwrite
       THEN \E fail \in BOOLEAN :
               /\ MayFail(B2N(fail))
               /\ faults' = faults + B2N(fail)
               /\ should_recreate_tables' = fail
               /\ h' = [Logged(Did(h, {"schema"}), <<Call("schema", CATALOG_TABLE_NAME, 0, ~fail)>>)
                        EXCEPT !.lookupFailed = fail]
       ELSE /\ should_recreate_tables' = args.overwrite
            /\ UNCHANGED << faults, h >>
    /\ pc' = "drop"
    /\ UNCHANGED << overviewVars, dbVars, envVars, startVars, catalog_table, chunks_table,
                    catalog_table_exists, procVars, chunkVars >>

(***************************************************************************)
(* main(): the overwrite step.  fail = 1: table_names or drop_table raises *)
(* before the catalog table is dropped; fail = 2: it raises after the      *)
(* catalog table is dropped and before the chunks table is.  The except    *)
(* clause only prints, so the three assignments after the drops are        *)
(* skipped.                                                                *)
(***************************************************************************)
\* The calls of "if NAME in db.table_names(): db.drop_table(NAME)"; a
\* raising table_names is logged as a raising drop_table.
drop_calls(name, listed, raises) ==
    IF raises THEN <<Call("drop_table", name, 0, FALSE)>>
    ELSE IF listed THEN <<Call("drop_table", name, 0, TRUE)>>
    ELSE <<>>

DropTables ==
    /\ pc = "drop"
    /\ IF should_recreate_tables
       THEN \E fail \in 0..2 :
               /\ MayFail(B2N(fail # 0))
               /\ faults' = faults + B2N(fail # 0)
               /\ catalog' = IF fail = 1 THEN catalog ELSE NoTable
               /\ chunks' = IF fail = 0 THEN NoTable ELSE chunks
               /\ catalog_table_exists' = IF fail = 0 THEN FALSE ELSE catalog_table_exists
               /\ catalog_table' = IF fail = 0 THEN None ELSE catalog_table
               /\ chunks_table' = IF fail = 0 THEN None ELSE chunks_table
               /\ h' = [Logged(Did(h, {"names"} \cup
                                       (IF (catalog.exists /\ fail # 1) \/ (chunks.exists /\ fail = 0)
                                        THEN {"drop"} ELSE {})),
                               drop_calls(CATALOG_TABLE_NAME, catalog.exists, fail = 1)
                               \o (IF fail = 1 THEN <<>>
                                   ELSE drop_calls(CHUNKS_TABLE_NAME, chunks.exists, fail = 2)))
                        EXCEPT !.dropFailed = (fail # 0)]
       ELSE UNCHANGED << dbVars, faults, catalog_table, chunks_table,
                         catalog_table_exists, h >>
    /\ pc' = "load"
    /\ UNCHANGED << overviewVars, envVars, startVars, should_recreate_tables, procVars, chunkVars >>

(***************************************************************************)
(* main(): DirectoryLoader.load() and the metadata clean-up.  Every file   *)
(* of the directory gives its pages in order, as page units with metadata  *)
(* {source, page}; page_content is the text (its identity and length).     *)
(***************************************************************************)
PageUnits(s, c) ==
    [k \in 1..Len(PagesOf(c)) |->
        [source |-> s,
         page |-> PagesOf(c)[k].page,
         page_content |-> [id |-> <<c, PagesOf(c)[k].page>>, len |-> PagesOf(c)[k].len]]]

Load(d) ==
    Flatten([k \in 1..Len(SourceOrder) |->
                IF d[SourceOrder[k]] = Absent
                THEN <<>>
                ELSE PageUnits(SourceOrder[k], d[SourceOrder[k]])])

LoadDocuments ==
    /\ pc = "load"
    /\ \E fail \in BOOLEAN :
          /\ MayFail(B2N(fail))
          /\ faults' = faults + B2N(fail)
          /\ IF fail
             THEN /\ pc' = "aborted"
                  /\ raw_docs' = raw_docs
                  /\ h' = [Logged(Did(h, {"load"}), <<Call("load", "", 0, FALSE)>>)
                           EXCEPT !.abortCause = "load"]
             ELSE /\ pc' = "group"
                  /\ raw_docs' = Load(disk)
                  /\ h' = Logged(Did(h, {"load"}), <<Call("load", "", 0, TRUE)>>)
    /\ UNCHANGED << overviewVars, dbVars, envVars, startVars, handleVars, docs_by_source, pending,
                    skip_sources,
                    catalog_records, chunkVars >>

(***************************************************************************)
(* process_documents: grouping.  docs_by_source is a dict, whose keys keep *)
(* the order of their first insertion: it is modelled by the sequence of   *)
(* its items, [source, docs].                                              *)
(***************************************************************************)
RECURSIVE KeysInOrder(_, _)
KeysInOrder(ds, seen) ==
    IF ds = <<>> THEN <<>>
    ELSE IF Head(ds).source \in seen
         THEN KeysInOrder(Tail(ds), seen)
         ELSE <<Head(ds).source>> \o KeysInOrder(Tail(ds), seen \cup {Head(ds).source})

\* Mutant: a page unit is put at the front of the list of its source.
group_prepend(group, d) == <<d>> \o group

\* docs_by_source[source].append(doc)
group_append(group, d) == Append(group, d)

\* The loop "for doc in raw_docs" on the dict acc.
RECURSIVE grouped(_, _)
grouped(ds, acc) ==
    IF ds = <<>> THEN acc
    ELSE LET source == Head(ds).source
             at == {k \in 1..Len(acc) : acc[k].source = source}
         IN IF at = {}
            THEN grouped(Tail(ds),
                         Append(acc, [source |-> source, docs |-> group_append(<<>>, Head(ds))]))
            ELSE grouped(Tail(ds),
                         [k \in 1..Len(acc) |->
                             IF k \in at
                             THEN [acc[k] EXCEPT !.docs = group_append(@, Head(ds))]
                             ELSE acc[k]])

\* docs_by_source.items(): the keys, and the value of a key.
Keys(dict) == [k \in 1..Len(dict) |-> dict[k].source]

Value(dict, s) == dict[CHOOSE k \in 1..Len(dict) : dict[k].source = s].docs

GroupDocuments ==
    /\ pc = "group"
    /\ docs_by_source' = grouped(raw_docs, <<>>)
    /\ pending' = Keys(docs_by_source')
    /\ skip_sources' = <<>>
    /\ catalog_records' = <<>>
    /\ pc' = "process"
    /\ UNCHANGED << overviewVars, dbVars, envVars, faults, startVars, handleVars, raw_docs, chunkVars, h >>

(***************************************************************************)
(* calculate_file_hash: SHA-256 of the bytes; equal bytes give equal       *)
(* digests and different bytes different ones.                             *)
(***************************************************************************)
calculate_file_hash(c) == <<"sha256", c>>

(***************************************************************************)
(* catalog_record_exists: the query on the table handle; a None handle, a  *)
(* dropped table or a raising query all end in the except clause.          *)
(***************************************************************************)
\* Mutant: the except clause answers True.
catalog_record_exists_true_on_error(handle, table, hash_value, raises) ==
    IF handle = None \/ ~table.exists \/ raises
    THEN TRUE
    ELSE \E k \in 1..Len(table.rows) : table.rows[k].hash = hash_value

catalog_record_exists(handle, table, hash_value, raises) ==
    IF handle = None \/ ~table.exists \/ raises
    THEN FALSE
    ELSE \E k \in 1..Len(table.rows) : table.rows[k].hash = hash_value

(***************************************************************************)
(* generate_content_overview: the selection of the page units that go into *)
(* the prompt: the loop keeps the units whose page number is below         *)
(* max_pages; when it keeps none, the first 10 units are taken.            *)
(***************************************************************************)
RECURSIVE pages_up_to(_, _)
pages_up_to(ds, n) ==
    IF ds = <<>> THEN <<>>
    ELSE (IF Head(ds).page <= n THEN <<Head(ds)>> ELSE <<>>) \o pages_up_to(Tail(ds), n)

\* Mutant: the loop tests page_num <= max_pages.
first_pages_inclusive(ds, n) ==
    IF pages_up_to(ds, n) = <<>> THEN SubSeq(ds, 1, Min(10, Len(ds))) ELSE pages_up_to(ds, n)

RECURSIVE pages_below(_, _)
pages_below(ds, n) ==
    IF ds = <<>> THEN <<>>
    ELSE (IF Head(ds).page < n THEN <<Head(ds)>> ELSE <<>>) \o pages_below(Tail(ds), n)

first_pages(ds, n) ==
    IF pages_below(ds, n) = <<>> THEN SubSeq(ds, 1, Min(10, Len(ds))) ELSE pages_below(ds, n)

(***************************************************************************)
(* generate_content_overview: the text of the prompt.  A text is a         *)
(* sequence of pieces: the page_content of a page unit (or, after a cut,   *)
(* its first len characters) or the separator "\n\n" that the loop appends *)
(* after every unit.                                                       *)
(***************************************************************************)
max_chars == MAX_CHARS_FOR_SUMMARY

Separator == [sep |-> TRUE, id |-> <<0, 0>>, len |-> 2]

TextOf(d) == [sep |-> FALSE, id |-> d.page_content.id, len |-> d.page_content.len]

\* len(text)
RECURSIVE TextLen(_)
TextLen(t) == IF t = <<>> THEN 0 ELSE Head(t).len + TextLen(Tail(t))

\* text[:n]
RECURSIVE Truncate(_, _)
Truncate(t, n) ==
    IF t = <<>> THEN <<>>
    ELSE IF Head(t).len <= n THEN <<Head(t)>> \o Truncate(Tail(t), n - Head(t).len)
    ELSE IF n = 0 THEN <<>>
    ELSE << [Head(t) EXCEPT !.len = n] >>

\* Mutant: a unit that does not fit is passed over and the loop goes on.
RECURSIVE combined_skipping(_, _)
combined_skipping(ds, acc) ==
    IF ds = <<>> THEN acc
    ELSE IF TextLen(acc) + Head(ds).page_content.len > max_chars
         THEN combined_skipping(Tail(ds), acc)
         ELSE combined_skipping(Tail(ds), acc \o <<TextOf(Head(ds)), Separator>>)

\* The loop "for doc in first_10_pages": break at the first unit with
\* len(combined_text) + len(doc.page_content) > max_chars, else append the
\* unit and the separator.  acc is combined_text so far.
RECURSIVE combined(_, _)
combined(ds, acc) ==
    IF ds = <<>> THEN acc
    ELSE IF TextLen(acc) + Head(ds).page_content.len > max_chars
         THEN acc
         ELSE combined(Tail(ds), acc \o <<TextOf(Head(ds)), Separator>>)

(***************************************************************************)
(* generate_content_overview: the provider's reply, or on any error the    *)
(* fallback text "Document starting with: " + first 150 characters of the  *)
(* first page unit + "...", or "Document content overview" without units.  *)
(* An overview is modelled by its kind and its length.                     *)
(***************************************************************************)
LlmReply == [kind |-> "summary", len |-> 60]

\* Mutant: the except clause returns the empty string.
generate_content_overview_empty_fallback(ds, llm_raises) ==
    IF ~llm_raises THEN LlmReply ELSE [kind |-> "fallback", len |-> 0]

generate_content_overview(ds, llm_raises) ==
    IF ~llm_raises
    THEN LlmReply
    ELSE IF ds # <<>>
         THEN [kind |-> "fallback", len |-> 24 + Min(ds[1].page_content.len, 150) + 3]
         ELSE [kind |-> "default", len |-> 25]

(***************************************************************************)
(* process_documents: one iteration of the loop over docs_by_source.       *)
(* hf, qf, lf: the hash, the membership query, the summarization raise.    *)
(***************************************************************************)
\* Mutant: the membership check is bypassed only on the overwrite flag.
skip_exists_check_overwrite_only == args.overwrite

\* Mutant: the membership check is always bypassed.
skip_exists_check_always == TRUE

skip_exists_check == should_recreate_tables \/ ~catalog_table_exists

\* Mutant: every loaded source is taken to be on disk.
os_path_exists_always(d, s) == TRUE

os_path_exists(d, s) == d[s] # Absent

\* Mutant: a source that cannot be hashed is put in the skip set.
on_hash_error_skip == "skip"

\* calculate_file_hash is called outside any try block: its IOError leaves
\* process_documents, and main().
on_hash_error == "raise"

\* Mutant: an error of the summarization provider leaves generate_content_overview.
on_llm_error_raise == "raise"

\* ainvoke is called in a try block whose except clause returns the fallback text.
on_llm_error == "fallback"

ProcessSource ==
    /\ pc = "process"
    /\ pending # <<>>
    /\ LET source == Head(pending)
           ds == Value(docs_by_source, source)
           gone == IF disk[source] = Absent THEN {source} ELSE {}
       IN IF ~os_path_exists(disk, source)
          THEN /\ pending' = Tail(pending)
               /\ h' = [Logged(Did(h, {"exists"}), <<Call("exists", source, 0, TRUE)>>)
                        EXCEPT !.missing = @ \cup gone]
               /\ UNCHANGED << faults, pc, skip_sources, catalog_records >>
          ELSE \E hf \in BOOLEAN,
                  qf \in {f \in BOOLEAN : f => ~skip_exists_check},
                  lf \in BOOLEAN :
                  /\ hf => (~qf /\ ~lf)
                  /\ MayFail(B2N(hf) + B2N(qf) + B2N(lf))
                  /\ LET file_hash == calculate_file_hash(disk[source])
                         exists == IF skip_exists_check
                                   THEN FALSE
                                   ELSE catalog_record_exists(catalog_table, catalog,
                                                              file_hash, qf)
                         asked == IF skip_exists_check THEN {} ELSE {source}
                         h0 == [Logged(Did(h, {"exists", "hash"}),
                                       <<Call("exists", source, 0, TRUE),
                                         Call("hash", source, 0, ~hf)>>)
                                EXCEPT !.missing = @ \cup gone,
                                       !.hashed = @ \cup {source}]
                         query == IF asked = {} THEN <<>>
                                  ELSE <<Call("query", source, 0, ~qf)>>
                     IN IF hf
                        THEN /\ faults' = faults + 1
                             /\ IF on_hash_error = "raise"
                                THEN /\ pc' = "aborted"
                                     /\ h' = [h0 EXCEPT !.abortCause = "hash",
                                                        !.hfailed = @ \cup {source}]
                                     /\ UNCHANGED << pending, skip_sources, catalog_records >>
                                ELSE /\ skip_sources' = Append(skip_sources, source)
                                     /\ pending' = Tail(pending)
                                     /\ h' = [h0 EXCEPT !.hfailed = @ \cup {source}]
                                     /\ UNCHANGED << pc, catalog_records >>
                        ELSE IF exists
                        THEN /\ ~lf
                             /\ skip_sources' = Append(skip_sources, source)
                             /\ pending' = Tail(pending)
                             /\ faults' = faults + B2N(qf)
                             /\ h' = [Logged(Did(h0, {"query"}), query)
                                      EXCEPT !.queried = @ \cup asked,
                                             !.qfailed = @ \cup (IF qf THEN {source} ELSE {})]
                             /\ UNCHANGED << pc, catalog_records >>
                        ELSE IF lf /\ on_llm_error = "raise"
                        THEN /\ pc' = "aborted"
                             /\ faults' = faults + B2N(qf) + B2N(lf)
                             /\ h' = [Logged(Did(h0, {"llm"}),
                                             query \o <<Call("llm", source, 0, FALSE)>>)
                                      EXCEPT !.abortCause = "llm"]
                             /\ UNCHANGED << pending, skip_sources, catalog_records >>
                        ELSE /\ catalog_records' = Append(catalog_records,
                                    [page_content |-> generate_content_overview(ds, lf),
                                     source |-> source,
                                     hash |-> file_hash,
                                     run |-> runs])
                             /\ pending' = Tail(pending)
                             /\ faults' = faults + B2N(qf) + B2N(lf)
                             /\ h' = [Logged(Did(h0, {"llm"} \cup
                                                     (IF asked = {} THEN {} ELSE {"query"})),
                                             query \o <<Call("llm", source, 0, ~lf)>>)
                                      EXCEPT !.processed = @ \cup {source},
                                             !.queried = @ \cup asked,
                                             !.qfailed = @ \cup (IF qf THEN {source} ELSE {}),
                                             !.llmCalls = @ + 1,
                                             !.llmFails = @ + B2N(lf)]
                             /\ UNCHANGED << pc, skip_sources >>
    /\ UNCHANGED << overviewVars, dbVars, envVars, startVars, handleVars, raw_docs,
                    docs_by_source, chunkVars >>

\* Mutant: the staged records are not written before the chunks are.
ProcessReturn_to_chunking ==
    /\ pc = "process"
    /\ pending = <<>>
    /\ pc' = "filter"
    /\ UNCHANGED << overviewVars, dbVars, envVars, faults, startVars, handleVars, procVars, chunkVars, h >>

ProcessReturn ==
    /\ pc = "process"
    /\ pending = <<>>
    /\ pc' = "catalog"
    /\ UNCHANGED << overviewVars, dbVars, envVars, faults, startVars, handleVars, procVars, chunkVars, h >>

(***************************************************************************)
(* The vector store (LanceDB behind langchain's wrapper).  from_documents  *)
(* embeds the batch and creates the table, replaces it (mode "overwrite")  *)
(* or adds to it (mode "append"); add_documents embeds the batch and adds  *)
(* it.  A call either takes effect as a whole or raises and changes        *)
(* nothing: the embeddings are computed before the table is touched.       *)
(***************************************************************************)
\* Mutant: from_documents replaces the table whatever the mode.
from_documents_replace(table, batch, mode) == [exists |-> TRUE, rows |-> batch]

from_documents(table, batch, mode) ==
    IF table.exists /\ mode = "append"
    THEN [exists |-> TRUE, rows |-> table.rows \o batch]
    ELSE [exists |-> TRUE, rows |-> batch]

\* Mutant: add_documents replaces the rows of the table.
add_documents_replace(table, batch) == [exists |-> TRUE, rows |-> batch]

add_documents(table, batch) == [exists |-> TRUE, rows |-> table.rows \o batch]

\* How a write call ends: done, or raising in the embedding provider or in the store.
Outcomes == {"ok", "embed_error", "store_error"}

(***************************************************************************)
(* main(): the catalog write, first attempt (the try block).               *)
(***************************************************************************)
\* Mutant: a write is attempted whether or not there is something to write.
nonempty_always(xs) == TRUE

\* "if catalog_records:", "if filtered_raw_docs:", "if docs:".
nonempty(xs) == xs # <<>>

WriteCatalog ==
    /\ pc = "catalog"
    /\ IF ~nonempty(catalog_records)
       THEN /\ pc' = "filter"
            /\ UNCHANGED << catalog, faults, h >>
       ELSE \E o \in Outcomes :
               /\ MayFail(B2N(o # "ok"))
               /\ faults' = faults + B2N(o # "ok")
               /\ LET append == catalog_table_exists /\ catalog_table # None
                      h1 == [Logged(Did(h, {"embed", IF append THEN "append" ELSE "create"}),
                                    <<Call(IF append THEN "add_documents" ELSE "from_documents",
                                           CATALOG_TABLE_NAME, 0, o = "ok")>>)
                             EXCEPT !.catAttempts = 1,
                                    !.catMode = IF append THEN "append" ELSE "create"]
                  IN IF o = "ok"
                     THEN /\ catalog' = IF append
                                        THEN add_documents(catalog, catalog_records)
                                        ELSE from_documents(catalog, catalog_records, "overwrite")
                          /\ pc' = "filter"
                          /\ h' = h1
                     ELSE /\ catalog' = catalog
                          /\ pc' = "catalog_retry"
                          /\ h' = [h1 EXCEPT !.catCause = o]
    /\ UNCHANGED << overviewVars, chunks, envVars, startVars, handleVars, procVars, chunkVars >>

(***************************************************************************)
(* main(): the except clause of the catalog write: drop the table if it is *)
(* listed, then from_documents in overwrite mode.  df: table_names or      *)
(* drop_table raises.  Nothing catches an error raised here.               *)
(***************************************************************************)
\* Mutant: an error of the retry is swallowed and the run goes on.
retry_failure_swallowed(stage) == IF stage = "catalog" THEN "filter" ELSE "done"

\* The retries are outside any try block: an error raised there leaves main().
retry_failure(stage) == "aborted"

RecreateCatalog ==
    /\ pc = "catalog_retry"
    /\ \E df \in BOOLEAN, o \in Outcomes :
          /\ df => o = "ok"
          /\ MayFail(B2N(df) + B2N(o # "ok"))
          /\ faults' = faults + B2N(df) + B2N(o # "ok")
          /\ IF df
             THEN /\ catalog' = catalog
                  /\ pc' = "aborted"
                  /\ h' = [Logged(Did(h, {"names"}),
                                  drop_calls(CATALOG_TABLE_NAME, catalog.exists, TRUE))
                           EXCEPT !.abortCause = "catalog_drop"]
             ELSE LET h1 == [Logged(Did(h, {"names", "embed", "create"} \cup
                                           (IF catalog.exists THEN {"drop"} ELSE {})),
                                    drop_calls(CATALOG_TABLE_NAME, catalog.exists, FALSE)
                                    \o <<Call("from_documents", CATALOG_TABLE_NAME, 0, o = "ok")>>)
                             EXCEPT !.catAttempts = @ + 1,
                                    !.catDropped = catalog.exists]
                  IN IF o = "ok"
                     THEN /\ catalog' = from_documents(NoTable, catalog_records, "overwrite")
                          /\ pc' = "filter"
                          /\ h' = h1
                     ELSE /\ catalog' = NoTable
                          /\ pc' = retry_failure("catalog")
                          /\ h' = [h1 EXCEPT !.abortCause = "catalog_retry"]
    /\ UNCHANGED << overviewVars, chunks, envVars, startVars, handleVars, procVars, chunkVars >>

(***************************************************************************)
(* RecursiveCharacterTextSplitter(chunk_size, chunk_overlap): a text of    *)
(* at most chunk_size characters is one fragment (none when empty); a      *)
(* longer one is cut every chunk_size - chunk_overlap characters.  A chunk *)
(* keeps the metadata of its page unit.                                    *)
(***************************************************************************)
Fragments(len) ==
    IF len = 0 THEN 0
    ELSE IF len <= chunk_size THEN 1
    ELSE 1 + ((len - chunk_size) + (chunk_size - chunk_overlap) - 1) \div (chunk_size - chunk_overlap)

split_documents(ds) ==
    Flatten([k \in 1..Len(ds) |->
                [f \in 1..Fragments(ds[k].page_content.len) |->
                    [page_content |-> <<ds[k].page_content.id, f>>,
                     source |-> ds[k].source,
                     page |-> ds[k].page,
                     run |-> runs]]])

\* Mutant: the skipped sources are not filtered out.
filtered_raw_docs_all(ds, skip) == ds

filtered_raw_docs(ds, skip) == SelectSeq(ds, LAMBDA d : d.source \notin Range(skip))

(***************************************************************************)
(* main(): filter out the skipped sources and split the rest.              *)
(***************************************************************************)
FilterAndSplit ==
    /\ pc = "filter"
    /\ LET filtered == filtered_raw_docs(raw_docs, skip_sources)
           split == IF nonempty(filtered) THEN split_documents(filtered) ELSE <<>>
       IN /\ docs' = split
          /\ pc' = IF nonempty(split) THEN "chunks" ELSE "done"
          /\ h' = IF nonempty(filtered)
                  THEN Logged(h, <<Call("split_documents", "", 0, TRUE)>>)
                  ELSE h
    /\ i' = 0
    /\ UNCHANGED << overviewVars, dbVars, envVars, faults, startVars, handleVars, procVars >>

(***************************************************************************)
(* main(): one iteration of the batch loop of the try block.               *)
(***************************************************************************)
batch(ds, from) == SubSeq(ds, from + 1, Min(from + batch_size, Len(ds)))

\* Mutant: the loop sleeps after every sub-batch.
pause_after_always(from, n) == TRUE

\* "if i + batch_size < len(docs): await asyncio.sleep(0.5)"
pause_after(from, n) == from + batch_size < n

\* The calls of one iteration of a batch loop whose write returns or raises.
batch_calls(from, n, ok) ==
    <<Call(IF from = 0 THEN "from_documents" ELSE "add_documents", CHUNKS_TABLE_NAME, from, ok)>>
    \o (IF ok /\ pause_after(from, n) THEN <<Call("sleep", "", from, TRUE)>> ELSE <<>>)

WriteBatch ==
    /\ pc = "chunks"
    /\ \E o \in Outcomes :
          /\ MayFail(B2N(o # "ok"))
          /\ faults' = faults + B2N(o # "ok")
          /\ LET h1 == [Logged(Did(h, {"embed", IF i = 0 /\ ~chunks.exists
                                                 THEN "create" ELSE "append"}),
                               batch_calls(i, Len(docs), o = "ok"))
                        EXCEPT !.chkAttempts = 1]
             IN IF o = "ok"
                THEN /\ chunks' = IF i = 0
                                  THEN from_documents(chunks, batch(docs, i),
                                           IF should_recreate_tables THEN "overwrite" ELSE "append")
                                  ELSE add_documents(chunks, batch(docs, i))
                     /\ i' = i + batch_size
                     /\ pc' = IF i + batch_size < Len(docs) THEN "chunks" ELSE "done"
                     /\ h' = h1
                ELSE /\ chunks' = chunks
                     /\ i' = i
                     /\ pc' = "chunks_recover"
                     /\ h' = [h1 EXCEPT !.chkCause = o, !.chkFailedAt = i]
    /\ UNCHANGED << overviewVars, catalog, envVars, startVars, handleVars, procVars, docs >>

(***************************************************************************)
(* main(): the except clause of the chunks write: drop the table if it is  *)
(* listed (df: table_names or drop_table raises), ...                      *)
(***************************************************************************)
\* Mutant: the retry resumes at the sub-batch that failed.
retry_resume(failed_at) == failed_at

\* The retry loop starts over: range(0, len(docs), batch_size).
retry_start(failed_at) == 0

RecoverChunks ==
    /\ pc = "chunks_recover"
    /\ \E df \in BOOLEAN :
          /\ MayFail(B2N(df))
          /\ faults' = faults + B2N(df)
          /\ IF df
             THEN /\ chunks' = chunks
                  /\ pc' = "aborted"
                  /\ h' = [Logged(Did(h, {"names"}),
                                  drop_calls(CHUNKS_TABLE_NAME, chunks.exists, TRUE))
                           EXCEPT !.abortCause = "chunks_drop"]
             ELSE /\ chunks' = NoTable
                  /\ pc' = "chunks_retry"
                  /\ h' = [Logged(Did(h, {"names"} \cup (IF chunks.exists THEN {"drop"} ELSE {})),
                                  drop_calls(CHUNKS_TABLE_NAME, chunks.exists, FALSE))
                           EXCEPT !.chkDropped = chunks.exists]
    /\ i' = retry_start(i)
    /\ UNCHANGED << overviewVars, catalog, envVars, startVars, handleVars, procVars, docs >>

(***************************************************************************)
(* ... then one iteration of the retry loop.  Nothing catches an error     *)
(* raised here.                                                            *)
(***************************************************************************)
RetryBatch ==
    /\ pc = "chunks_retry"
    /\ \E o \in Outcomes :
          /\ MayFail(B2N(o # "ok"))
          /\ faults' = faults + B2N(o # "ok")
          /\ LET h1 == [Logged(Did(h, {"embed", IF i = 0 /\ ~chunks.exists
                                                 THEN "create" ELSE "append"}),
                               batch_calls(i, Len(docs), o = "ok"))
                        EXCEPT !.chkAttempts = 2]
             IN IF o = "ok"
                THEN /\ chunks' = IF i = 0
                                  THEN from_documents(chunks, batch(docs, i), "overwrite")
                                  ELSE add_documents(chunks, batch(docs, i))
                     /\ i' = i + batch_size
                     /\ pc' = IF i + batch_size < Len(docs) THEN "chunks_retry" ELSE "done"
                     /\ h' = h1
                ELSE /\ chunks' = chunks
                     /\ i' = i
                     /\ pc' = retry_failure("chunks")
                     /\ h' = [h1 EXCEPT !.abortCause = "chunks_retry"]
    /\ UNCHANGED << overviewVars, catalog, envVars, startVars, handleVars, procVars, docs >>

Next ==
    \/ ChangeDir
    \/ Vanish
    \/ StartRun
    \/ ValidateArgs
    \/ InitModels
    \/ OpenTables
    \/ CheckSchema
    \/ DropTables
    \/ LoadDocuments
    \/ GroupDocuments
    \/ ProcessSource
    \/ ProcessReturn
    \/ WriteCatalog
    \/ RecreateCatalog
    \/ FilterAndSplit
    \/ WriteBatch
    \/ RecoverChunks
    \/ RetryBatch

Spec == Init /\ [][Next]_vars

(***************************************************************************)
(* Progress.  main() is one sequential coroutine, run to its end by        *)
(* asyncio.run: as long as every call it makes returns or raises, the step *)
(* the run is at is eventually taken.  Starting a run and changing the     *)
(* directory are up to the environment and need not happen.                *)
(***************************************************************************)
RunStep ==
    \/ ValidateArgs
    \/ InitModels
    \/ OpenTables
    \/ CheckSchema
    \/ DropTables
    \/ LoadDocuments
    \/ GroupDocuments
    \/ ProcessSource
    \/ ProcessReturn
    \/ WriteCatalog
    \/ RecreateCatalog
    \/ FilterAndSplit
    \/ WriteBatch
    \/ RecoverChunks
    \/ RetryBatch

\* The directories a behaviour of the progress check starts from: none, one
\* or two files, with text or without, giving no chunk, one sub-batch or a
\* full and a short one; the long report is the second file (ChangeDir
\* leads to the directories where it is the first, or both).
LiveInit == Init /\ disk["a.pdf"] \in {Absent, 1}

LiveSpec == LiveInit /\ [][Next]_vars /\ WF_vars(RunStep)

(***************************************************************************)
(* generate_content_overview on its own: a call on the page units of one   *)
(* source, with page numbers that start at 0, start later, or follow no    *)
(* order, and a max_pages that is the default, small, zero or negative     *)
(* (--max-pages is any int).                                                *)
(***************************************************************************)
\* Longest list of consecutively numbered units, longest list of freely numbered ones.
MaxUnits == 12
MaxShort == 3

FirstPageChoices == {0, 5, 10, 11}
PageChoices == {0, 9, 10, 11}
MaxPagesChoices == {-1, 0, 1, 10, 11}

\* Lengths of the text of a page: none, one character, and lengths around
\* the half and the whole of the limit on the characters of the prompt.
LenChoices ==
    {0, 1, max_chars \div 2 - 1, max_chars \div 2, max_chars - 2, max_chars - 1,
     max_chars, max_chars + 1}

UnitOfLen(k, p, n) ==
    [source |-> "a.pdf", page |-> p, page_content |-> [id |-> <<0, k>>, len |-> n]]

Unit(k, p) == UnitOfLen(k, p, 100)

OverviewInputs ==
    { [k \in 1..n |-> Unit(k, first + k - 1)] : n \in 0..MaxUnits, first \in FirstPageChoices }
    \cup UNION { { [k \in 1..n |-> Unit(k, f[k])] : f \in [1..n -> PageChoices] } :
                   n \in 1..MaxShort }
    \cup UNION { { [k \in 1..n |-> UnitOfLen(k, k - 1, f[k])] : f \in [1..n -> LenChoices] } :
                   n \in 1..MaxShort }

OverviewInit ==
    /\ disk = [s \in Sources |-> Absent]
    /\ catalog = NoTable
    /\ chunks = NoTable
    /\ runs = 0
    /\ faults = 0
    /\ pc = "overview"
    /\ args = [dbpath |-> TRUE, filesdir |-> TRUE, api_key |-> TRUE, overwrite |-> FALSE]
    /\ catalog_table = None
    /\ chunks_table = None
    /\ catalog_table_exists = TRUE
    /\ should_recreate_tables = FALSE
    /\ raw_docs = <<>>
    /\ docs_by_source = <<>>
    /\ pending = <<>>
    /\ skip_sources = <<>>
    /\ catalog_records = <<>>
    /\ docs = <<>>
    /\ i = 0
    /\ h = EmptyHistory
    /\ catalog0 = NoTable
    /\ chunks0 = NoTable
    /\ prev = [outcome |-> "none", catRetried |-> FALSE]
    /\ overwritten = FALSE
    /\ unchangedSince = 1
    /\ units \in OverviewInputs
    /\ max_pages \in MaxPagesChoices
    /\ first_10_pages = <<>>
    /\ combined_text = <<>>
    /\ submitted = <<>>

SelectPages ==
    /\ pc = "overview"
    /\ first_10_pages' = first_pages(units, max_pages)
    /\ pc' = "selected"
    /\ UNCHANGED << units, max_pages, combined_text, submitted, dbVars, envVars, faults,
                    startVars, handleVars, procVars, chunkVars, h >>

\* Lines 102-116: the loop over the selected units and the cut of the
\* prompt, combined_text[:max_chars].
BuildPrompt ==
    /\ pc = "selected"
    /\ combined_text' = combined(first_10_pages, <<>>)
    /\ submitted' = Truncate(combined_text', max_chars)
    /\ pc' = "prompt"
    /\ UNCHANGED << units, max_pages, first_10_pages, dbVars, envVars, faults, startVars,
                    handleVars, procVars, chunkVars, h >>

OverviewNext ==
    \/ SelectPages
    \/ BuildPrompt

OverviewSpec == OverviewInit /\ [][OverviewNext]_vars

(***************************************************************************)
(* The grouping step of process_documents on its own: a call on any list   *)
(* of page units, whose sources may alternate, whose pages may come in any *)
(* order, and whose metadata may lack a source (the clean-up of main()     *)
(* then gives it the empty path).                                          *)
(***************************************************************************)
\* Longest list of page units given to the grouping step.
MaxDocs == 4

GroupSources == Sources \cup {""}
GroupPages == {0, 1}

GroupInputs ==
    UNION { { [k \in 1..n |-> [source |-> f[k][1], page |-> f[k][2],
                               page_content |-> [id |-> <<0, k>>, len |-> 100]]] :
                f \in [1..n -> GroupSources \X GroupPages] } :
            n \in 0..MaxDocs }

GroupInit ==
    /\ disk = [s \in Sources |-> Absent]
    /\ catalog = NoTable
    /\ chunks = NoTable
    /\ runs = 0
    /\ faults = 0
    /\ pc = "group"
    /\ args = [dbpath |-> TRUE, filesdir |-> TRUE, api_key |-> TRUE, overwrite |-> FALSE]
    /\ catalog_table = None
    /\ chunks_table = None
    /\ catalog_table_exists = TRUE
    /\ should_recreate_tables = FALSE
    /\ raw_docs \in GroupInputs
    /\ docs_by_source = <<>>
    /\ pending = <<>>
    /\ skip_sources = <<>>
    /\ catalog_records = <<>>
    /\ docs = <<>>
    /\ i = 0
    /\ h = EmptyHistory
    /\ catalog0 = NoTable
    /\ chunks0 = NoTable
    /\ prev = [outcome |-> "none", catRetried |-> FALSE]
    /\ overwritten = FALSE
    /\ unchangedSince = 1
    /\ units = <<>>
    /\ max_pages = MAX_PAGES_FOR_SUMMARY
    /\ first_10_pages = <<>>
    /\ combined_text = <<>>
    /\ submitted = <<>>

GroupNext == GroupDocuments

GroupSpec == GroupInit /\ [][GroupNext]_vars

TypeOK ==
    /\ pc \in {"idle", "validate", "init", "open", "schema", "drop", "load", "group",
               "process", "catalog", "catalog_retry", "filter", "chunks", "chunks_recover",
               "chunks_retry", "done", "aborted", "exit1", "overview", "selected", "prompt"}
    /\ runs + faults \in 0..MaxEvents
    /\ catalog.exists \in BOOLEAN
    /\ chunks.exists \in BOOLEAN

(***************************************************************************)
(* Properties.                                                             *)
(***************************************************************************)
SourcesOf(ds) == {ds[k].source : k \in 1..Len(ds)}

OnDisk == {s \in Sources : disk[s] # Absent}

\* The current run follows a completed run, does not overwrite, and the
\* directory has not changed since the completed run started.
RerunUnchanged ==
    /\ runs >= 2
    /\ prev.outcome = "done"
    /\ ~args.overwrite
    /\ unchangedSince < runs

NothingNew ==
    /\ catalog_records = <<>>
    /\ docs = <<>>
    /\ catalog = catalog0
    /\ chunks = chunks0

AllSkipped ==
    /\ SourcesOf(raw_docs) = OnDisk
    /\ Range(skip_sources) = OnDisk

C2_BatchRecovery ==
    (pc = "done" /\ h.chkAttempts = 2 /\ h.chkFailedAt > 0)
        => \A k \in 1..Len(docs) : Count(chunks.rows, docs[k]) = 1

C2_Witness ==
    /\ pc = "done" /\ h.chkAttempts = 2 /\ h.chkFailedAt >= batch_size
    /\ h.chkDropped
    /\ Len(docs) > batch_size

\* C3: a completed run with overwrite=true that loaded at least one source, on
\* a database that held both tables, leaves in both tables only rows written
\* by this run: no row of the prior tables survives.
C3_OverwriteSemantics ==
    (pc = "done" /\ args.overwrite /\ catalog0.exists /\ chunks0.exists /\ raw_docs # <<>>)
        => /\ \A k \in 1..Len(catalog.rows) : catalog.rows[k].run = runs
           /\ \A k \in 1..Len(chunks.rows) : chunks.rows[k].run = runs

\* C4: a source in the skip set has no chunk among the chunks to write and no
\* row written to the chunks table by this run.
C4_SkipSetExclusion ==
    \A s \in Range(skip_sources) :
        /\ \A k \in 1..Len(docs) : docs[k].source # s
        /\ \A k \in 1..Len(chunks.rows) :
              chunks.rows[k].run = runs => chunks.rows[k].source # s

C4_Witness ==
    /\ pc = "done"
    /\ skip_sources # <<>>
    /\ \E k \in 1..Len(chunks.rows) : chunks.rows[k].run = runs
    /\ SourcesOf(raw_docs) = Sources

\* C5: the catalog table never holds two rows with the same hash.
C5_OneRecordPerFingerprint ==
    \A j, k \in 1..Len(catalog.rows) :
        j # k => catalog.rows[j].hash # catalog.rows[k].hash

\* C6: catalog_record_exists answers false for every fingerprint on an absent
\* handle and on a raising query, and a source whose membership query raised
\* is staged, not skipped.
C6_MembershipConservatism ==
    /\ \A c \in Contents :
          /\ ~catalog_record_exists(None, catalog, calculate_file_hash(c), FALSE)
          /\ ~catalog_record_exists(Handle, catalog, calculate_file_hash(c), TRUE)
    /\ \A s \in h.qfailed :
          /\ s \notin Range(skip_sources)
          /\ \E k \in 1..Len(catalog_records) : catalog_records[k].source = s

C6_Witness ==
    /\ pc = "done"
    /\ \E s \in h.qfailed :
          \E k \in 1..Len(catalog0.rows) :
              catalog0.rows[k].hash = calculate_file_hash(disk[s])

\* C7: as long as every call to the summarization provider has raised, every
\* source processed so far has exactly one staged record, its content is not
\* empty, and every raised call has ended in a staged record (none has ended
\* the run).
C7_OverviewFallback ==
    (h.llmCalls = h.llmFails)
        => /\ \A s \in h.processed :
                Cardinality({k \in 1..Len(catalog_records) :
                                catalog_records[k].source = s}) = 1
           /\ \A k \in 1..Len(catalog_records) : catalog_records[k].page_content.len > 0
           /\ h.llmFails = Len(catalog_records)

C7_Witness ==
    /\ pc = "done"
    /\ h.llmFails = 2 /\ h.llmCalls = 2
    /\ \E k \in 1..Len(catalog.rows) : catalog.rows[k].page_content.kind = "fallback"

\* C8: after an embedding failure in a write, that write is not attempted
\* again and no table is dropped.
C8_EmbeddingFailureFatal ==
    /\ h.catCause = "embed_error" => (h.catAttempts = 1 /\ ~h.catDropped)
    /\ h.chkCause = "embed_error" => (h.chkAttempts = 1 /\ ~h.chkDropped)

\* C9: a write is attempted at most twice; a run that is past a retried write
\* holds in the table exactly the batch, written as a fresh table; a failed
\* retry has aborted the run.
C9_RetryOnce ==
    /\ h.catAttempts <= 2 /\ h.chkAttempts <= 2
    /\ (h.catAttempts = 2 /\ pc # "aborted")
          => (h.catCause # "none" /\ catalog = [exists |-> TRUE, rows |-> catalog_records])
    /\ (h.chkAttempts = 2 /\ pc = "done")
          => (h.chkCause # "none" /\ chunks = [exists |-> TRUE, rows |-> docs])
    /\ (h.abortCause \in {"catalog_retry", "chunks_retry"}) => pc = "aborted"

\* A run that found chunks of an earlier run, failed in the store on its
\* second sub-batch, dropped the table and completed the retry.
C9_Witness ==
    /\ pc = "done"
    /\ h.chkAttempts = 2 /\ h.chkCause = "store_error" /\ h.chkDropped
    /\ h.chkFailedAt > 0
    /\ Len(chunks0.rows) > 0

\* C10: a run with a configuration error (no database path, no files
\* directory or no credentials) gets no further than validate_args: it has
\* made no I/O and no provider call, loaded nothing and changed no table.
ConfigError == ~args.dbpath \/ ~args.filesdir \/ ~args.api_key

C10_ConfigErrorBeforeIO ==
    ConfigError
        => /\ pc \in {"validate", "exit1"}
           /\ h.io = {}
           /\ raw_docs = <<>>
           /\ catalog = catalog0 /\ chunks = chunks0
           /\ catalog_table = None /\ chunks_table = None

C10_Witness ==
    /\ pc = "exit1"
    /\ ~args.api_key
    /\ catalog.exists /\ chunks.exists

\* Positions of a run after the loop of process_documents has returned.
PastProcess ==
    {"catalog", "catalog_retry", "filter", "chunks", "chunks_recover", "chunks_retry", "done"}

\* Number of calls of an operation that the run has made on a source or table.
CallsOn(op, on) ==
    Cardinality({k \in 1..Len(h.log) : h.log[k].op = op /\ h.log[k].on = on})

\* C11: a source whose file was not on disk when its group was processed is
\* not hashed, not looked up in the catalog, gets no overview and no staged
\* record; the loop goes on, so that once it has returned every loaded source
\* was found missing, skipped as cataloged, or staged.
C11_MissingFileSkipped ==
    /\ \A s \in h.missing :
          /\ s \notin h.hashed /\ CallsOn("hash", s) = 0
          /\ CallsOn("query", s) = 0
          /\ CallsOn("llm", s) = 0
          /\ \A k \in 1..Len(catalog_records) : catalog_records[k].source # s
    /\ pc \in PastProcess
          => SourcesOf(raw_docs) = h.missing \cup h.processed \cup Range(skip_sources)

C11_Witness ==
    /\ pc = "done"
    /\ h.missing = {"a.pdf"}
    /\ h.processed = {"b.pdf"}
    /\ \E k \in 1..Len(catalog.rows) : catalog.rows[k].source = "b.pdf" /\ catalog.rows[k].run = runs

\* C12: a source on which calculate_file_hash raised is not in the skip set
\* and has no staged record; the error leaves process_documents: the run has
\* stopped at that source, the failed hash is its last call.
C12_HashFailurePropagates ==
    \A s \in h.hfailed :
        /\ s \notin Range(skip_sources)
        /\ \A k \in 1..Len(catalog_records) : catalog_records[k].source # s
        /\ pc = "aborted" /\ h.abortCause = "hash"
        /\ pending # <<>> /\ Head(pending) = s
        /\ h.log[Len(h.log)] = Call("hash", s, 0, FALSE)

C12_Witness ==
    /\ pc = "aborted"
    /\ h.hfailed = {"b.pdf"}
    /\ Range(skip_sources) = {"a.pdf"}
    /\ \E k \in 1..Len(catalog0.rows) : catalog0.rows[k].source = "b.pdf"

\* The calls of the catalog processing of a source, of the catalog write, and
\* of the splitting and the chunks write.
IsSourceCall(c) == c.op \in {"exists", "hash", "query", "llm"}

IsCatalogWrite(c) == c.on = CATALOG_TABLE_NAME /\ c.op \in {"add_documents", "from_documents"}

IsChunkCall(c) ==
    \/ c.op \in {"split_documents", "sleep"}
    \/ c.on = CHUNKS_TABLE_NAME /\ c.op \in {"add_documents", "from_documents"}

SourceCalls == SelectSeq(h.log, IsSourceCall)

\* The catalog processing of source s has ended with call c.
EndsProcessing(c, s) ==
    \/ c.op = "exists" /\ s \in h.missing
    \/ c.op = "query" /\ c.ok /\ s \in Range(skip_sources)
    \/ c.op = "llm" /\ s \in h.processed
          /\ \E k \in 1..Len(catalog_records) : catalog_records[k].source = s

\* C13: in the sequence of the calls of a run, the calls on one source are
\* consecutive (a call follows one that returned, or a membership query
\* whose error was caught), the next source begins (with its existence test)
\* only after the previous one was found missing, skipped or staged; every
\* call on a source precedes the catalog write, and every call of the catalog
\* write and of its recovery precedes the splitting and the chunks write,
\* which start only when the staged batch is in the catalog table.  The
\* calls form a sequence: none is made while another is in flight.
C13_Ordering ==
    LET sc == SourceCalls
        onSource == {k \in 1..Len(h.log) : IsSourceCall(h.log[k])}
        onCatalog == {k \in 1..Len(h.log) : h.log[k].on = CATALOG_TABLE_NAME}
        catalogWrites == {k \in onCatalog : IsCatalogWrite(h.log[k])}
        chunkCalls == {k \in 1..Len(h.log) : IsChunkCall(h.log[k])}
    IN /\ \A k \in 2..Len(sc) :
             IF sc[k].on = sc[k - 1].on
             THEN (sc[k - 1].ok \/ sc[k - 1].op = "query") /\ sc[k - 1].op # "llm"
                  /\ sc[k].op # "exists"
             ELSE /\ \A j \in 1..(k - 1) : sc[j].on # sc[k].on
                  /\ sc[k].op = "exists"
                  /\ EndsProcessing(sc[k - 1], sc[k - 1].on)
       /\ \A j \in onSource : \A k \in catalogWrites \cup chunkCalls : j < k
       /\ \A j \in onCatalog : \A k \in chunkCalls : j < k
       /\ chunkCalls # {}
             => /\ pending = <<>>
                /\ catalog_records # <<>>
                      => /\ catalog.exists
                         /\ \A k \in 1..Len(catalog_records) :
                               Count(catalog.rows, catalog_records[k]) = 1

C13_Witness ==
    /\ pc = "done"
    /\ Len(catalog_records) = 2
    /\ h.catAttempts = 2
    /\ h.chkAttempts = 2
    /\ Len(docs) > batch_size

\* C14: a run ends with a non-zero status (sys.exit(1), or an error that
\* leaves main()) only on a configuration error: a run whose configuration is
\* complete, whose test embedding returned and whose directory was loaded does
\* not end with an error, whatever fails later.
C14_ExitBehaviour ==
    /\ pc = "exit1" => ConfigError
    /\ (~ConfigError /\ h.abortCause \notin {"embed_test", "load"}) => pc # "aborted"

\* The current run has raised no error and the directory is as it was when
\* the run started.
NoFailure == faults = h.faults0

IsPrefix(s, t) == Len(s) <= Len(t) /\ SubSeq(t, 1, Len(s)) = s

\* Source s was ingested by an earlier run and its bytes are no longer the
\* ones that were ingested.
ChangedSinceIngestion(s) ==
    /\ disk[s] # Absent
    /\ \E k \in 1..Len(catalog0.rows) :
          /\ catalog0.rows[k].source = s
          /\ catalog0.rows[k].hash # calculate_file_hash(disk[s])
    /\ \E k \in 1..Len(chunks0.rows) : chunks0.rows[k].source = s

\* The fingerprint of s is in no record of the catalog the run started with.
FreshFingerprint(s) ==
    \A k \in 1..Len(catalog0.rows) : catalog0.rows[k].hash # calculate_file_hash(disk[s])

\* The loader extracts text from the file of s.
HasText(s) == \E k \in 1..Len(PagesOf(disk[s])) : PagesOf(disk[s])[k].len > 0

\* The run has appended a record for s, chunks for s, kept the earlier rows.
RecordAppended(s) ==
    \E k \in 1..Len(catalog.rows) :
        /\ catalog.rows[k].source = s
        /\ catalog.rows[k].hash = calculate_file_hash(disk[s])
        /\ catalog.rows[k].run = runs

ChunksAppended(s) ==
    \E k \in 1..Len(chunks.rows) :
        /\ chunks.rows[k].source = s
        /\ chunks.rows[k].run = runs
        /\ chunks.rows[k].page_content[1][1] = disk[s]

OldRowsKept == IsPrefix(catalog0.rows, catalog.rows) /\ IsPrefix(chunks0.rows, chunks.rows)

Reingested(s) == RecordAppended(s) /\ ChunksAppended(s) /\ OldRowsKept

\* C15 as stated: a run without overwrite that completes without failure
\* re-ingests every source whose bytes changed since it was ingested, and
\* keeps the rows of the tables it started with.
C15_Reingestion_Original ==
    (pc = "done" /\ ~args.overwrite /\ NoFailure)
        => \A s \in Sources : ChangedSinceIngestion(s) => Reingested(s)

\* C15 amended: the same for every changed source whose new fingerprint is
\* not already in the catalog (as the fingerprint of another source, or of
\* earlier bytes of this one); new chunks are written when the new bytes
\* have text.
C15_Reingestion ==
    (pc = "done" /\ ~args.overwrite /\ NoFailure)
        => \A s \in Sources :
              (ChangedSinceIngestion(s) /\ FreshFingerprint(s))
                 => /\ RecordAppended(s)
                    /\ HasText(s) => ChunksAppended(s)
                    /\ OldRowsKept

C15_Witness ==
    /\ pc = "done" /\ ~args.overwrite /\ NoFailure
    /\ ChangedSinceIngestion("a.pdf") /\ FreshFingerprint("a.pdf")
    /\ Reingested("a.pdf")
    /\ Len(chunks0.rows) > 0 /\ Len(chunks.rows) > Len(chunks0.rows)

NoQuery == \A k \in 1..Len(h.log) : h.log[k].op # "query"

\* The run has opened the catalog table: it found that the table exists.
CatalogOpened == \E k \in 1..Len(h.log) : h.log[k] = Call("open_table", CATALOG_TABLE_NAME, 0, TRUE)

SchemaUnreadable == \E k \in 1..Len(h.log) : h.log[k] = Call("schema", CATALOG_TABLE_NAME, 0, FALSE)

\* The sources whose file was on disk when their group was processed, once
\* the loop of process_documents has returned.
FoundOnDisk == SourcesOf(raw_docs) \ h.missing

\* C16 as stated: no membership query is issued when overwrite was requested
\* or the run found no catalog table when it started; otherwise the loop of
\* process_documents issues exactly one per source whose file exists.
C16_QueryBypass_Original ==
    IF args.overwrite \/ ~CatalogOpened
    THEN NoQuery
    ELSE pc \in PastProcess => \A s \in FoundOnDisk : CallsOn("query", s) = 1

\* C16 amended: no membership query is issued either when the schema of the
\* catalog table could not be read; otherwise exactly one is issued per
\* source whose file exists, none on a missing one.
C16_QueryBypass ==
    IF args.overwrite \/ ~CatalogOpened \/ SchemaUnreadable
    THEN NoQuery
    ELSE /\ pc \in PastProcess => \A s \in FoundOnDisk : CallsOn("query", s) = 1
         /\ \A s \in Sources : CallsOn("query", s) <= 1
         /\ \A s \in h.missing : CallsOn("query", s) = 0

C16_Witness ==
    /\ pc = "done"
    /\ ~args.overwrite /\ CatalogOpened /\ ~SchemaUnreadable
    /\ FoundOnDisk = Sources
    /\ h.qfailed # {}
    /\ skip_sources # <<>>

\* The calls of the run made after the directory was loaded.
AfterLoad ==
    LET loads == {j \in 1..Len(h.log) : h.log[j].op = "load"}
    IN {k \in 1..Len(h.log) : \E j \in loads : j < k}

\* The table as the overwrite step of the run left it.
AfterOverwriteStep(name, table0) ==
    IF \E k \in (1..Len(h.log)) \ AfterLoad : h.log[k] = Call("drop_table", name, 0, TRUE)
    THEN NoTable
    ELSE table0

\* Call c is a write attempt on the table, or has dropped it.
WritesOrDrops(c, name) ==
    /\ c.on = name
    /\ c.op \in {"add_documents", "from_documents"} \/ (c.op = "drop_table" /\ c.ok)

PastCatalogWrite == {"filter", "chunks", "chunks_recover", "chunks_retry", "done"}

\* C17 as stated: a run that staged no record has not created, appended to or
\* dropped the catalog table, and a completed run with no chunk to write has
\* not created, appended to or dropped the chunks table.
C17_NoEmptyWrite_Original ==
    /\ (pc \in PastCatalogWrite /\ catalog_records = <<>>)
          => /\ catalog = catalog0
             /\ \A k \in 1..Len(h.log) : ~WritesOrDrops(h.log[k], CATALOG_TABLE_NAME)
    /\ (pc = "done" /\ docs = <<>>)
          => /\ chunks = chunks0
             /\ \A k \in 1..Len(h.log) : ~WritesOrDrops(h.log[k], CHUNKS_TABLE_NAME)

\* C17 amended: with no staged record the run makes no call on the catalog
\* table after the directory is loaded, and with no chunk to write none on the
\* chunks table: each table stays as the overwrite step left it (dropped when
\* the tables are recreated, untouched otherwise).
C17_NoEmptyWrite ==
    /\ (pc \in PastCatalogWrite /\ catalog_records = <<>>)
          => /\ catalog = AfterOverwriteStep(CATALOG_TABLE_NAME, catalog0)
             /\ \A k \in AfterLoad : h.log[k].on # CATALOG_TABLE_NAME
    /\ (pc = "done" /\ docs = <<>>)
          => /\ chunks = AfterOverwriteStep(CHUNKS_TABLE_NAME, chunks0)
             /\ \A k \in AfterLoad : h.log[k].on # CHUNKS_TABLE_NAME

\* A run that skipped a cataloged source and whose only other page unit, of a
\* file gone since it was loaded, split into no chunk.
C17_Witness ==
    /\ pc = "done"
    /\ catalog_records = <<>> /\ docs = <<>>
    /\ skip_sources # <<>>
    /\ \E k \in 1..Len(h.log) : h.log[k].op = "split_documents"
    /\ catalog.exists /\ chunks.exists
    /\ catalog = catalog0 /\ chunks = chunks0

\* C18: the catalog write of a run appends the staged batch if and only if
\* the run found the catalog table when it started and neither overwrite nor
\* a recreation of the tables was requested, and otherwise creates the table
\* from the batch; it writes the batch in one call, and once the write has
\* succeeded the table exists and holds every staged record.
C18_WriteModeSelection ==
    h.catAttempts >= 1
        => /\ (h.catMode = "append")
                 <=> (CatalogOpened /\ ~args.overwrite /\ ~SchemaUnreadable)
           /\ h.catCause = "none"
                 => Cardinality({k \in 1..Len(h.log) : IsCatalogWrite(h.log[k])}) = 1
           /\ pc \in PastCatalogWrite
                 => /\ catalog.exists
                    /\ \A k \in 1..Len(catalog_records) :
                          Count(catalog.rows, catalog_records[k]) = 1

IsWrite(c) == c.on = CHUNKS_TABLE_NAME /\ c.op \in {"add_documents", "from_documents"}

\* The calls of the last pass of the run over its sub-batches: the calls made
\* since the split or, when a write has raised and the run has gone on, since
\* that write.
LastPass ==
    LET starts == {k \in 1..Len(h.log) :
                      \/ h.log[k].op = "split_documents"
                      \/ IsWrite(h.log[k]) /\ ~h.log[k].ok /\ k < Len(h.log)}
        from == CHOOSE k \in starts : \A j \in starts : j <= k
    IN IF starts = {} THEN <<>> ELSE SubSeq(h.log, from + 1, Len(h.log))


\* The chunks of docs from index from + 1 up to index to.
Slice(from, to) == SubSeq(docs, from + 1, Min(to, Len(docs)))

\* C19: in a pass over the chunks, the k-th write starts at chunk
\* (k - 1) * 100, the first is a from_documents (which creates, replaces or
\* appends to the table), every later one an add_documents; each write that
\* returned has added to the table the at most 100 chunks from its start up
\* to the start of the next, so that a completed pass has written every
\* chunk once, in order; a sleep is taken only right after a write that
\* returned, every write that another call of the pass follows is followed
\* by a sleep, a pass that ends with a sleep has chunks left to write and
\* goes on, and a pass that ends with a write that returned is complete.
C19_SubBatchProtocol ==
    LET pass == LastPass
        writes == SelectSeq(pass, IsWrite)
        written == 100 * Len(SelectSeq(writes, LAMBDA c : c.ok))
        last == pass[Len(pass)]
    IN /\ \A k \in 1..Len(writes) :
             /\ writes[k].at = (k - 1) * 100
             /\ writes[k].at < Len(docs)
             /\ writes[k].op = IF k = 1 THEN "from_documents" ELSE "add_documents"
             /\ k < Len(writes) => writes[k].ok
       /\ (pc \in {"chunks", "chunks_retry", "done"} /\ docs # <<>>
             /\ \A k \in 1..Len(writes) : writes[k].ok)
             => /\ Len(chunks.rows) >= Min(written, Len(docs))
                /\ SubSeq(chunks.rows, Len(chunks.rows) - Min(written, Len(docs)) + 1,
                          Len(chunks.rows)) = Slice(0, written)
                /\ pc = "done" <=> written >= Len(docs)
       /\ \A k \in 1..Len(pass) :
             /\ pass[k].op = "sleep" => (k > 1 /\ IsWrite(pass[k - 1]) /\ pass[k - 1].ok)
             /\ pass[k].op \in {"sleep", "drop_table"} \/ IsWrite(pass[k])
             /\ (IsWrite(pass[k]) /\ k < Len(pass))
                   => (pass[k + 1].op = "sleep" /\ k + 1 < Len(pass) => IsWrite(pass[k + 2]))
       /\ (pass # <<>> /\ last.op = "sleep")
             => (pc \in {"chunks", "chunks_retry"} /\ written < Len(docs))
       /\ (pass # <<>> /\ IsWrite(last) /\ last.ok)
             => (pc = "done" /\ written >= Len(docs))

C19_Witness ==
    /\ pc = "done"
    /\ Len(docs) = 2 * batch_size
    /\ h.chkAttempts = 2
    /\ Len(chunks0.rows) > 0
    /\ Len(SelectSeq(LastPass, LAMBDA c : c.op = "sleep")) = 1

\* The units of the call whose page number is below max_pages, by position.
Qualifying == {k \in 1..Len(units) : units[k].page < max_pages}

\* C20: once generate_content_overview has made its selection, the selected
\* units are, when some unit has a page number below max_pages, exactly the
\* units with such a page number, in their order in the source, and
\* otherwise the first 10 units of the source (all of them when it has fewer);
\* at least one unit is selected unless the source has none.
C20_UnitSelection ==
    pc = "selected"
        => /\ IF Qualifying # {}
              THEN /\ Len(first_10_pages) = Cardinality(Qualifying)
                   /\ \A k \in Qualifying :
                         first_10_pages[Cardinality({j \in Qualifying : j <= k})] = units[k]
              ELSE /\ Len(first_10_pages) = Min(10, Len(units))
                   /\ \A k \in 1..Len(first_10_pages) : first_10_pages[k] = units[k]
           /\ units # <<>> => first_10_pages # <<>>

\* A source of more than 10 units, none below max_pages: the first 10 are taken.
C20_Witness ==
    /\ pc = "selected"
    /\ Len(units) > 10
    /\ Qualifying = {}
    /\ Len(first_10_pages) = 10
    /\ max_pages > 0

(***************************************************************************)
(* The prompt of generate_content_overview.                                *)
(***************************************************************************)
UnitPieces(t) == SelectSeq(t, LAMBDA x : ~x.sep)

\* len(combined_text) after the first k selected units: every unit appended
\* brings its text and the separator.
RunningCount(k) ==
    TextLen([j \in 1..k |-> TextOf(first_10_pages[j])]) + k * Separator.len

\* The first k selected units, each followed by the separator.
Joined(k) ==
    Flatten([j \in 1..k |-> <<TextOf(first_10_pages[j]), Separator>>])

\* C21: the text in the prompt is made of the first n selected units, in
\* order and each whole, every unit followed by the blank-line separator (of
\* which only the last can be cut short); unit n+1, if there is one, is the
\* first whose addition would take the running character count over
\* max_chars, and no unit after it is in the text; the text is never longer
\* than max_chars.
C21_CharacterBudget ==
    pc = "prompt" =>
        LET n == Len(UnitPieces(submitted))
        IN /\ n <= Len(first_10_pages)
           /\ UnitPieces(submitted) = [k \in 1..n |-> TextOf(first_10_pages[k])]
           /\ submitted = Truncate(Joined(n), max_chars)
           /\ TextLen(Joined(n)) - TextLen(submitted) <= Separator.len
           /\ \A k \in 1..n :
                 RunningCount(k - 1) + first_10_pages[k].page_content.len <= max_chars
           /\ n < Len(first_10_pages) =>
                 RunningCount(n) + first_10_pages[n + 1].page_content.len > max_chars
           /\ TextLen(submitted) <= max_chars

\* A unit is left out for the budget, after two units that fill it to the
\* last character, so that the cut removes the last separator.
C21_Witness ==
    /\ pc = "prompt"
    /\ Len(UnitPieces(submitted)) = 2
    /\ Len(first_10_pages) = 3
    /\ TextLen(submitted) = max_chars
    /\ TextLen(combined_text) > max_chars

\* C28: whenever a selected page unit has non-empty text, the text in the
\* prompt is non-empty.
C28_NonEmptySummaryInput ==
    (pc = "prompt" /\ \E k \in 1..Len(first_10_pages) : first_10_pages[k].page_content.len > 0)
        => TextLen(submitted) > 0

(***************************************************************************)
(* The grouping step.                                                      *)
(***************************************************************************)
\* The positions of raw_docs whose unit has source s, in increasing order.
RECURSIVE PositionsOf(_, _, _)
PositionsOf(ds, s, k) ==
    IF k > Len(ds) THEN <<>>
    ELSE (IF ds[k].source = s THEN <<k>> ELSE <<>>) \o PositionsOf(ds, s, k + 1)

\* The grouping step is done and the loop over the groups is under way.
Grouped == pc = "process"

\* Number of groups the loop over docs_by_source.items() has taken up.
GroupsStarted == Cardinality({k \in 1..Len(h.log) : h.log[k].op = "exists"})

\* C22: after the grouping step the dict has one group per source of the
\* input, in the order in which the sources first appear, and the groups are
\* taken up in that order; the group of a source holds exactly the input
\* units of that source, in their input order, so that every input unit is
\* in exactly one group, the one keyed by its source; and the step leaves
\* the input sequence as it was.
C22_GroupingPartition ==
    /\ [](Grouped =>
            /\ Keys(docs_by_source) = KeysInOrder(raw_docs, {})
            /\ pending = SubSeq(Keys(docs_by_source), GroupsStarted + 1, Len(docs_by_source))
            /\ \A g \in 1..Len(docs_by_source) :
                  LET at == PositionsOf(raw_docs, docs_by_source[g].source, 1)
                  IN docs_by_source[g].docs = [k \in 1..Len(at) |-> raw_docs[at[k]]]
            /\ \A k \in 1..Len(raw_docs) :
                  Cardinality({ <<g, j>> \in (1..Len(docs_by_source)) \X (1..Len(raw_docs)) :
                                  /\ j <= Len(docs_by_source[g].docs)
                                  /\ docs_by_source[g].docs[j] = raw_docs[k] }) = 1)
    /\ [][pc = "group" => raw_docs' = raw_docs]_vars

\* Two sources alternate in the input, and the pages of one come out of order.
C22_Witness ==
    /\ Grouped
    /\ pending = <<"b.pdf", "a.pdf">>
    /\ Len(raw_docs) = 4
    /\ raw_docs[1].source = "b.pdf" /\ raw_docs[2].source = "a.pdf"
    /\ raw_docs[3].source = "b.pdf" /\ raw_docs[4].source = "a.pdf"
    /\ raw_docs[1].page = 1 /\ raw_docs[3].page = 0
    /\ Len(docs_by_source) = 2

(***************************************************************************)
(* Termination.                                                            *)
(***************************************************************************)
InRun == pc \notin {"idle", "done", "aborted", "exit1"}

\* The failures that nothing catches: the test embedding, the loader, the
\* hash of a source, and the drop or the write of a recovery path.
PropagatedCauses ==
    {"embed_test", "load", "hash", "catalog_drop", "catalog_retry", "chunks_drop",
     "chunks_retry"}

Completed == pc = "done"

AbortedByFailure ==
    \/ pc = "exit1" /\ validate_args(args) = "exit"
    \/ pc = "aborted" /\ h.abortCause \in PropagatedCauses

\* Number of failures of the current run that a fallback absorbed: failed
\* membership queries, failed summaries, first write attempts that were
\* retried, sources whose file was missing.
Absorbed ==
    Cardinality(h.qfailed) + h.llmFails + Cardinality(h.missing)
    + B2N(h.catAttempts = 2) + B2N(h.chkAttempts = 2)

\* C23: every run that has started eventually ends, completed or aborted by
\* a failure that propagates out of main().  No run need follow it, so a run
\* cannot end in another way: one whose failures were all absorbed by a
\* fallback ends completed.
C23_Termination == InRun ~> (Completed \/ AbortedByFailure)

\* A run completed, its chunks written, after a failed summary and a failed
\* first catalog write.
C23_Witness ==
    /\ Completed
    /\ h.llmFails = 1
    /\ h.catAttempts = 2
    /\ Absorbed = 2
    /\ docs # <<>>
    /\ \A k \in 1..Len(docs) : Count(chunks.rows, docs[k]) = 1

(***************************************************************************)
(* Catalog and chunks.                                                     *)
(***************************************************************************)
RunEnded == pc \in {"done", "aborted"}

\* The texts of the chunks that splitting the pages of source s gives when
\* its file has content c.
ChunkTextsOf(s, c) ==
    LET ds == split_documents(PageUnits(s, c))
    IN {ds[k].page_content : k \in 1..Len(ds)}

Stored(table, s, text) ==
    \E k \in 1..Len(table.rows) :
        table.rows[k].source = s /\ table.rows[k].page_content = text

\* C24: when a run has ended, completed or aborted, every source with a
\* record in the catalog table has the chunks of the recorded bytes in the
\* chunks table.
C24_CatalogImpliesChunks ==
    RunEnded =>
        \A k \in 1..Len(catalog.rows) :
            \A text \in ChunkTextsOf(catalog.rows[k].source, catalog.rows[k].hash[2]) :
                Stored(chunks, catalog.rows[k].source, text)

\* The sources for which the run staged a catalog record.
Staged == {catalog_records[k].source : k \in 1..Len(catalog_records)}

\* C25: every source with a chunk among the chunks the run writes has a
\* catalog record staged by the same run; a source whose file was missing
\* when its group was processed has no chunk among them.
C25_ChunksImplyCatalog ==
    /\ SourcesOf(docs) \subseteq Staged
    /\ SourcesOf(docs) \cap h.missing = {}

\* A call on the store or on the embedding provider raised in the current
\* run.  open_table raising on a table that does not exist is how the run
\* learns that it has to create the table, and is not counted.
StoreOps == {"connect", "open_table", "schema", "drop_table", "query", "add_documents",
             "from_documents"}

StoreOrEmbeddingFailure ==
    \/ h.lookupFailed
    \/ \E k \in 1..Len(h.log) :
          /\ ~h.log[k].ok
          /\ h.log[k].op \in (StoreOps \ {"open_table"}) \cup {"embed_query"}

\* C26: when a run with overwrite=false in which no call on the store and
\* no embedding call raised has ended, both tables start with the rows they
\* had when the run started, unchanged and in the same order: the run has
\* only added rows.
C26_AppendOnly ==
    (RunEnded /\ ~args.overwrite /\ ~StoreOrEmbeddingFailure)
        => /\ IsPrefix(catalog0.rows, catalog.rows)
           /\ IsPrefix(chunks0.rows, chunks.rows)
           /\ catalog0.exists => catalog.exists
           /\ chunks0.exists => chunks.exists

\* Such a run has added a record and chunks to tables that held rows.
C26_Witness ==
    /\ pc = "done" /\ ~args.overwrite /\ ~StoreOrEmbeddingFailure
    /\ Len(catalog0.rows) > 0 /\ Len(catalog.rows) > Len(catalog0.rows)
    /\ Len(chunks0.rows) > 0 /\ Len(chunks.rows) > Len(chunks0.rows)

\* No file of the directory has changed since the first run started.
BytesNeverChanged == unchangedSince = 1

\* Number of rows of the chunks table with source s, page p and text t.
Copies(s, p, text) ==
    Cardinality({k \in 1..Len(chunks.rows) :
                    /\ chunks.rows[k].source = s
                    /\ chunks.rows[k].page = p
                    /\ chunks.rows[k].page_content = text})

\* C27: as long as every run so far had overwrite=false and the bytes of the
\* sources never changed, the chunks table holds no two rows with the same
\* source, page and text; in particular in a run that opened the catalog
\* table and read its schema, whatever its membership queries and its
\* catalog write did.
C27_NoDuplicateChunks ==
    (BytesNeverChanged /\ ~overwritten /\ ~h.lookupFailed)
        => \A k \in 1..Len(chunks.rows) :
              Copies(chunks.rows[k].source, chunks.rows[k].page, chunks.rows[k].page_content) = 1

====
